---- MODULE Spec2Model ----
(***************************************************************************)
(* Access control of the Docker volume responses in the Portainer proxy    *)
(* (api/http/proxy/factory/docker/volumes.go): the volume list operation   *)
(* (decorateVolumeList / filterVolumeList) and the volume inspect          *)
(* operation (findInheritedVolumeResourceControl).                         *)
(*                                                                         *)
(* One behaviour is one proxied request: Init is the upstream response,    *)
(* the caller's operation context and the resource control snapshot; one   *)
(* action per handler rewrites (or refuses to rewrite) the response.       *)
(*                                                                         *)
(* The helpers of the proxy package and of package portainer that the file *)
(* calls (resource control lookup, access decision, decoration, response   *)
(* rewriting) are modelled by what the specification says of them.         *)
(***************************************************************************)
EXTENDS Integers, Sequences, FiniteSets, TLC

(***************************************************************************)
(* Bounds of the model.                                                    *)
(***************************************************************************)
\* The upstream volume list has at most MaxVolumes entries.
MaxVolumes == 2
\* The user identifiers and the team identifiers of the instance.
UserIDs == {1, 2}
TeamIDs == {1}
\* Names of the volumes that may have a Volume resource control.
ControlledVolumes == {"v1"}
\* Values of the stack label; the empty string is a value a label can hold.
StackNames == {"", "s1"}

(***************************************************************************)
(* Program constants and nil values.                                       *)
(***************************************************************************)
errDockerVolumeIdentifierNotFound == "Docker volume identifier not found"
volumeIdentifier == "Name"
volumeLabelForStackIdentifier == "com.docker.stack.namespace"
VolumeResourceControl == "VolumeResourceControl"
StackResourceControl == "StackResourceControl"
StatusOK == 200

\* A JSON field that is absent (Go: map lookup yields nil).
Null == "<nil>"
\* The nil *portainer.ResourceControl.
NilRC == [Type |-> "<nil>"]
\* The nil error.
NoError == "<nil>"

(***************************************************************************)
(* Data.                                                                   *)
(***************************************************************************)
\* portainer.ResourceControl: the fields the access decision reads.
ResourceControl(id, type, pub, users, teams) ==
    [ResourceID |-> id, Type |-> type, Public |-> pub,
     UserAccesses |-> users, TeamAccesses |-> teams]

\* restrictedDockerOperationContext, without its resourceControls (kept in
\* the variable resourceControls).
OperationContexts ==
    [isAdmin : BOOLEAN, endpointResourceAccess : BOOLEAN,
     userID : UserIDs, userTeamIDs : SUBSET TeamIDs]

\* The name of the i-th volume of the engine (volume names are unique).
VolumeName(i) == "v" \o ToString(i)

\* A volume JSON object: its identifier field "Name" (Null when the field
\* is missing), the value of Labels["com.docker.stack.namespace"] (Null when
\* Labels or the key is missing) and the Portainer.ResourceControl metadata
\* (NilRC when the object carries no such field, as every upstream object).
VolumeObject(name, label, rc) ==
    [Name |-> name, Labels |-> label, Portainer |-> rc]

(***************************************************************************)
(* Helpers of the proxy package that the volume handlers call.             *)
(***************************************************************************)
\* portainer.GetResourceControlByResourceIDAndType: the resource control of
\* the snapshot with this resource identifier and type, or nil.
GetResourceControlByResourceIDAndType(resourceID, resourceControlType, rcs) ==
    IF \E rc \in rcs : rc.ResourceID = resourceID /\ rc.Type = resourceControlType
    THEN CHOOSE rc \in rcs : rc.ResourceID = resourceID /\ rc.Type = resourceControlType
    ELSE NilRC

\* portainer.UserCanAccessResource: nil grants nothing; a public record, a
\* user access or a team access of the caller grants.
UserCanAccessResource(userID, userTeamIDs, resourceControl) ==
    /\ resourceControl # NilRC
    /\ \/ resourceControl.Public
       \/ userID \in resourceControl.UserAccesses
       \/ resourceControl.TeamAccesses \cap userTeamIDs # {}

\* decorateObject: sets the Portainer.ResourceControl metadata of the object.
decorateObject(object, resourceControl) ==
    [object EXCEPT !.Portainer = resourceControl]

\* decorateResourceWithAccessControl: decorates the object with the resource
\* control of (resourceIdentifier, resourceType) when there is one.
decorateResourceWithAccessControl(resourceObject, resourceIdentifier, rcs, resourceType) ==
    LET resourceControl ==
            GetResourceControlByResourceIDAndType(resourceIdentifier, resourceType, rcs)
    IN  IF resourceControl # NilRC
        THEN decorateObject(resourceObject, resourceControl)
        ELSE resourceObject

\* decorateResourceWithAccessControlFromLabel: the same, the identifier being
\* the value of the label when the label is present (the test of the label
\* that findInheritedVolumeResourceControl makes: present, whatever its value).
decorateResourceWithAccessControlFromLabel(labelsObject, resourceObject, rcs, resourceType) ==
    IF labelsObject # Null
    THEN decorateResourceWithAccessControl(resourceObject, labelsObject, rcs, resourceType)
    ELSE resourceObject

\* applyResourceAccessControl: <<object, access>>; access is granted, and the
\* object decorated, when the resource control of (resourceIdentifier,
\* resourceType) exists and grants the caller.
applyResourceAccessControl(resourceObject, resourceIdentifier, context, rcs, resourceType) ==
    LET resourceControl ==
            GetResourceControlByResourceIDAndType(resourceIdentifier, resourceType, rcs)
    IN  IF resourceControl = NilRC
        THEN <<resourceObject, FALSE>>
        ELSE IF UserCanAccessResource(context.userID, context.userTeamIDs, resourceControl)
             THEN <<decorateObject(resourceObject, resourceControl), TRUE>>
             ELSE <<resourceObject, FALSE>>

\* applyResourceAccessControlFromLabel: the same, the identifier being the
\* value of the label when the label is present (the same test); no access
\* without a label.
applyResourceAccessControlFromLabel(labelsObject, resourceObject, context, rcs, resourceType) ==
    IF labelsObject # Null
    THEN applyResourceAccessControl(resourceObject, labelsObject, context, rcs, resourceType)
    ELSE <<resourceObject, FALSE>>

(***************************************************************************)
(* volumes.go                                                              *)
(***************************************************************************)
\* extractVolumeLabelsFromVolumeInspectObject and the read of
\* volumeLabels[volumeLabelForStackIdentifier]: nil when either is missing.
extractVolumeLabelsFromVolumeInspectObject(responseObject) == responseObject.Labels

extractVolumeLabelsFromVolumeListObject(responseObject) == responseObject.Labels

\* Mutant: the stack label is never looked up.
findInheritedVolumeResourceControlDirectOnly(responseObject, rcs) ==
    GetResourceControlByResourceIDAndType(responseObject.Name, VolumeResourceControl, rcs)

\* findInheritedVolumeResourceControl: the resource control of the volume,
\* else the one of the stack named by the stack label, else nil.
findInheritedVolumeResourceControl(responseObject, rcs) ==
    LET volumeID == responseObject.Name
        resourceControl ==
            GetResourceControlByResourceIDAndType(volumeID, VolumeResourceControl, rcs)
        volumeLabels == extractVolumeLabelsFromVolumeInspectObject(responseObject)
    IN  IF resourceControl # NilRC
        THEN resourceControl
        ELSE IF volumeLabels # Null
             THEN GetResourceControlByResourceIDAndType(volumeLabels, StackResourceControl, rcs)
             ELSE NilRC

\* Mutant: the volume is decorated from its own resource control only.
decorateVolumeDirectOnly(volumeObject, rcs) ==
    decorateResourceWithAccessControl(volumeObject, volumeObject.Name, rcs,
                                      VolumeResourceControl)

\* The body of the loop of decorateVolumeList for one volume.
decorateVolume(volumeObject, rcs) ==
    LET volumeID == volumeObject.Name
        decorated ==
            decorateResourceWithAccessControl(volumeObject, volumeID, rcs, VolumeResourceControl)
        volumeLabels == extractVolumeLabelsFromVolumeListObject(decorated)
    IN  decorateResourceWithAccessControlFromLabel(volumeLabels, decorated, rcs, StackResourceControl)

\* decorateVolumeList from the i-th volume on, decoratedVolumeData being the
\* result so far: [data, err].
RECURSIVE decorateVolumeListFrom(_, _, _, _)
decorateVolumeListFrom(volumeData, i, decoratedVolumeData, rcs) ==
    IF i > Len(volumeData)
    THEN [data |-> decoratedVolumeData, err |-> NoError]
    ELSE IF volumeData[i].Name = Null
         THEN [data |-> <<>>, err |-> errDockerVolumeIdentifierNotFound]
         ELSE decorateVolumeListFrom(volumeData, i + 1,
                  Append(decoratedVolumeData, decorateVolume(volumeData[i], rcs)), rcs)

decorateVolumeList(volumeData, rcs) ==
    decorateVolumeListFrom(volumeData, 1, <<>>, rcs)

\* Mutant: no fall-through to the stack label.
filterVolumeDirectOnly(volumeObject, context, rcs) ==
    applyResourceAccessControl(volumeObject, volumeObject.Name, context, rcs,
                               VolumeResourceControl)

\* The body of the loop of filterVolumeList for one volume: <<object, access>>.
filterVolume(volumeObject, context, rcs) ==
    LET volumeID == volumeObject.Name
        direct ==
            applyResourceAccessControl(volumeObject, volumeID, context, rcs, VolumeResourceControl)
    IN  IF ~direct[2]
        THEN applyResourceAccessControlFromLabel(
                 extractVolumeLabelsFromVolumeListObject(direct[1]), direct[1],
                 context, rcs, StackResourceControl)
        ELSE direct

\* Mutant: every volume is appended, whatever the access.
RECURSIVE filterVolumeListFromNoAccessCheck(_, _, _, _, _)
filterVolumeListFromNoAccessCheck(volumeData, i, filteredVolumeData, context, rcs) ==
    IF i > Len(volumeData)
    THEN [data |-> filteredVolumeData, err |-> NoError]
    ELSE IF volumeData[i].Name = Null
         THEN [data |-> <<>>, err |-> errDockerVolumeIdentifierNotFound]
         ELSE filterVolumeListFromNoAccessCheck(volumeData, i + 1,
                  Append(filteredVolumeData, filterVolume(volumeData[i], context, rcs)[1]),
                  context, rcs)

\* filterVolumeList from the i-th volume on: [data, err].
RECURSIVE filterVolumeListFrom(_, _, _, _, _)
filterVolumeListFrom(volumeData, i, filteredVolumeData, context, rcs) ==
    IF i > Len(volumeData)
    THEN [data |-> filteredVolumeData, err |-> NoError]
    ELSE IF volumeData[i].Name = Null
         THEN [data |-> <<>>, err |-> errDockerVolumeIdentifierNotFound]
         ELSE LET r == filterVolume(volumeData[i], context, rcs)
              IN  filterVolumeListFrom(volumeData, i + 1,
                      IF r[2] THEN Append(filteredVolumeData, r[1]) ELSE filteredVolumeData,
                      context, rcs)

filterVolumeList(volumeData, context, rcs) ==
    filterVolumeListFrom(volumeData, 1, <<>>, context, rcs)

(***************************************************************************)
(* State: one proxied request.                                             *)
(***************************************************************************)
VARIABLES
    context,           \* executor.operationContext (caller identity and grants)
    resourceControls,  \* executor.operationContext.resourceControls (snapshot)
    request,           \* the proxied request: list (GET /volumes), inspect (GET /volumes/v1)
    volumes,           \* list: the "Volumes" array of the upstream body, in order;
                       \* inspect: the one volume object of the upstream body
    volumesNull,       \* list: the upstream body has "Volumes": null
    op,                \* the operation that handled the response: none, list, inspect
    err,               \* the error the operation returned
    response           \* the response after the operation

vars == <<context, resourceControls, request, volumes, volumesNull, op, err, response>>

\* The access lists and the Public flag of a resource control.
Grants == [Public : BOOLEAN, UserAccesses : SUBSET UserIDs, TeamAccesses : SUBSET TeamIDs]

\* The resource controls of one type the snapshot may hold: none, or one for
\* one of the identifiers ids.
ControlsOf(ids, type) ==
    {{}} \cup
    { {ResourceControl(id, type, g.Public, g.UserAccesses, g.TeamAccesses)} :
        id \in ids, g \in Grants }

\* Snapshots: at most one resource control per (ResourceID, Type).
Snapshots ==
    { v \cup s : v \in ControlsOf(ControlledVolumes, VolumeResourceControl),
                 s \in ControlsOf(StackNames, StackResourceControl) }

LabelValues == {Null} \cup StackNames

\* Upstream volume lists of n volumes: the i-th is named VolumeName(i) with any
\* stack label, or lacks its Name field; none carries Portainer metadata.
UpstreamVolumes(n) ==
    { [i \in 1 .. n |->
          VolumeObject(IF f[i][1] THEN VolumeName(i) ELSE Null, f[i][2], NilRC)] :
        f \in [1 .. n -> {<<FALSE, Null>>} \cup ({TRUE} \X LabelValues)] }

\* The fixed status and body of responseutils.RewriteAccessDeniedResponse.
StatusAccessDenied == "access denied"
AccessDeniedBody == [message |-> "Access denied to resource"]

\* responseutils.RewriteResponse(response, responseObject, status).
RewriteResponse(body, status) ==
    [rewritten |-> TRUE, denied |-> FALSE, status |-> status, body |-> body]

\* responseutils.RewriteAccessDeniedResponse(response).
RewriteAccessDeniedResponse ==
    [rewritten |-> TRUE, denied |-> TRUE, status |-> StatusAccessDenied,
     body |-> <<AccessDeniedBody>>]

\* The upstream response, left as it is when the operation returns an error.
UpstreamResponse(body) ==
    [rewritten |-> FALSE, denied |-> FALSE, status |-> StatusOK, body |-> body]

Init ==
    /\ context \in OperationContexts
    /\ resourceControls \in Snapshots
    /\ request \in {"list", "inspect"}
    /\ volumes \in IF request = "list"
                   THEN UNION {UpstreamVolumes(n) : n \in 0 .. MaxVolumes}
                   ELSE UpstreamVolumes(1)
    /\ volumesNull \in {b \in BOOLEAN : b => (request = "list" /\ volumes = <<>>)}
    /\ op = "none"
    /\ err = NoError
    /\ response = UpstreamResponse(<<>>)

\* Mutant: the error of the loop is dropped and the response rewritten.
volumeListOperationIgnoresError(volumeData, isNull, ctx, rcs) ==
    IF ~isNull
    THEN LET r == IF ctx.isAdmin \/ ctx.endpointResourceAccess
                  THEN decorateVolumeList(volumeData, rcs)
                  ELSE filterVolumeList(volumeData, ctx, rcs)
         IN  <<NoError, RewriteResponse(r.data, StatusOK)>>
    ELSE <<NoError, RewriteResponse(volumeData, StatusOK)>>

\* volumeListOperation: <<err, response>>.
volumeListOperation(volumeData, isNull, ctx, rcs) ==
    IF ~isNull
    THEN LET r == IF ctx.isAdmin \/ ctx.endpointResourceAccess
                  THEN decorateVolumeList(volumeData, rcs)
                  ELSE filterVolumeList(volumeData, ctx, rcs)
         IN  IF r.err # NoError
             THEN <<r.err, UpstreamResponse(volumeData)>>
             ELSE <<NoError, RewriteResponse(r.data, StatusOK)>>
    ELSE <<NoError, RewriteResponse(volumeData, StatusOK)>>

\* Mutant: the access lists are not consulted, only the privileges.
volumeInspectOperationPrivilegedOnly(responseObject, ctx, rcs) ==
    IF responseObject.Name = Null
    THEN <<errDockerVolumeIdentifierNotFound, UpstreamResponse(<<responseObject>>)>>
    ELSE LET resourceControl == findInheritedVolumeResourceControl(responseObject, rcs)
         IN  IF ~(ctx.isAdmin \/ ctx.endpointResourceAccess)
             THEN <<NoError, RewriteAccessDeniedResponse>>
             ELSE IF resourceControl = NilRC
                  THEN <<NoError, RewriteResponse(<<responseObject>>, StatusOK)>>
                  ELSE <<NoError,
                         RewriteResponse(<<decorateObject(responseObject, resourceControl)>>,
                                         StatusOK)>>

\* Mutant: a volume without resource control is returned to any caller.
volumeInspectOperationNilAllowsAll(responseObject, ctx, rcs) ==
    IF responseObject.Name = Null
    THEN <<errDockerVolumeIdentifierNotFound, UpstreamResponse(<<responseObject>>)>>
    ELSE LET resourceControl == findInheritedVolumeResourceControl(responseObject, rcs)
         IN  IF resourceControl = NilRC
             THEN <<NoError, RewriteResponse(<<responseObject>>, StatusOK)>>
             ELSE IF \/ ctx.isAdmin
                     \/ ctx.endpointResourceAccess
                     \/ UserCanAccessResource(ctx.userID, ctx.userTeamIDs, resourceControl)
                  THEN <<NoError,
                         RewriteResponse(<<decorateObject(responseObject, resourceControl)>>,
                                         StatusOK)>>
                  ELSE <<NoError, RewriteAccessDeniedResponse>>

\* volumeInspectOperation: <<err, response>>.
volumeInspectOperation(responseObject, ctx, rcs) ==
    IF responseObject.Name = Null
    THEN <<errDockerVolumeIdentifierNotFound, UpstreamResponse(<<responseObject>>)>>
    ELSE LET resourceControl == findInheritedVolumeResourceControl(responseObject, rcs)
         IN  IF resourceControl = NilRC /\ (ctx.isAdmin \/ ctx.endpointResourceAccess)
             THEN <<NoError, RewriteResponse(<<responseObject>>, StatusOK)>>
             ELSE IF \/ ctx.isAdmin
                     \/ ctx.endpointResourceAccess
                     \/ UserCanAccessResource(ctx.userID, ctx.userTeamIDs, resourceControl)
                  THEN <<NoError,
                         RewriteResponse(<<decorateObject(responseObject, resourceControl)>>,
                                         StatusOK)>>
                  ELSE <<NoError, RewriteAccessDeniedResponse>>

\* The proxy handles the response of GET /volumes.
VolumeList ==
    /\ op = "none"
    /\ request = "list"
    /\ LET r == volumeListOperation(volumes, volumesNull, context, resourceControls)
       IN  /\ err' = r[1]
           /\ response' = r[2]
    /\ op' = "list"
    /\ UNCHANGED <<context, resourceControls, request, volumes, volumesNull>>

\* The proxy handles the response of GET /volumes/{name}.
VolumeInspect ==
    /\ op = "none"
    /\ request = "inspect"
    /\ LET r == volumeInspectOperation(volumes[1], context, resourceControls)
       IN  /\ err' = r[1]
           /\ response' = r[2]
    /\ op' = "inspect"
    /\ UNCHANGED <<context, resourceControls, request, volumes, volumesNull>>

Next ==
    \/ VolumeList
    \/ VolumeInspect

Spec == Init /\ [][Next]_vars

(***************************************************************************)
(* Vocabulary of the properties.                                           *)
(***************************************************************************)
\* The caller bypasses the per-resource checks.
Privileged == context.isAdmin \/ context.endpointResourceAccess

\* The record of the snapshot for (id, type), NilRC when there is none.
RecordOf(id, type) ==
    LET m == {rc \in resourceControls : rc.ResourceID = id /\ rc.Type = type}
    IN  IF m = {} THEN NilRC ELSE CHOOSE rc \in m : TRUE

\* The direct Volume record of a volume object.
DirectRecord(v) == RecordOf(v.Name, VolumeResourceControl)

\* The Stack record named by the stack label of a volume object.
StackRecord(v) ==
    IF v.Labels = Null THEN NilRC ELSE RecordOf(v.Labels, StackResourceControl)

\* The effective record: the direct record when one exists, otherwise the
\* Stack record named by the stack label.
EffectiveRecord(v) ==
    IF DirectRecord(v) # NilRC THEN DirectRecord(v) ELSE StackRecord(v)

\* CanAccess(caller, record) for the caller of the request.
CanAccess(r) == UserCanAccessResource(context.userID, context.userTeamIDs, r)

\* Every volume of the upstream list has its identifier.
AllNamed == \A i \in DOMAIN volumes : volumes[i].Name # Null

\* The list operation ran to completion on a restricted / a privileged caller.
ListedRestricted == op = "list" /\ ~Privileged /\ AllNamed
ListedPrivileged == op = "list" /\ Privileged /\ AllNamed

\* The inspect operation ran on a volume object that has its identifier.
Inspected == op = "inspect" /\ volumes[1].Name # Null
InspectedRestricted == Inspected /\ ~Privileged

\* The i-th upstream volume is in the list output (volume names are unique).
Kept(i) == \E j \in DOMAIN response.body : response.body[j].Name = volumes[i].Name

\* The output object of the i-th upstream volume, when it is kept.
Output(i) ==
    response.body[CHOOSE j \in DOMAIN response.body :
                      response.body[j].Name = volumes[i].Name]

\* The inspect operation answered with the fixed access-denied response.
InspectDenied ==
    /\ err = NoError
    /\ response = RewriteAccessDeniedResponse

\* The inspect operation answered with a success response holding object o.
InspectSucceeded(o) ==
    /\ err = NoError
    /\ response = RewriteResponse(<<o>>, StatusOK)

(***************************************************************************)
(* C1. List, restricted caller: an item is kept iff its effective record   *)
(* exists and grants the caller; an item whose direct record does not      *)
(* grant the caller is dropped whatever its label points to.               *)
(* The code falls through to the stack label whenever the direct record    *)
(* gave no access, so this is violated.  Items whose label is the empty    *)
(* string are left to C10.                                                 *)
(***************************************************************************)
C1_ListKeepsIffEffectiveGrants ==
    ListedRestricted =>
        \A i \in DOMAIN volumes :
            volumes[i].Labels # "" =>
                (Kept(i) <=> CanAccess(EffectiveRecord(volumes[i])))

(***************************************************************************)
(* C2. An item with no resolvable record (no direct Volume record, no      *)
(* Stack record through its label) is never in the list output of a        *)
(* restricted caller, and its inspection by a restricted caller is denied. *)
(***************************************************************************)
C2_NoRecordNeverVisible ==
    /\ ListedRestricted =>
           \A i \in DOMAIN volumes :
               (DirectRecord(volumes[i]) = NilRC /\ StackRecord(volumes[i]) = NilRC)
                   => ~Kept(i)
    /\ InspectedRestricted =>
           ((DirectRecord(volumes[1]) = NilRC /\ StackRecord(volumes[1]) = NilRC)
                => InspectDenied)

\* A restricted caller listed two volumes: the first was kept, the second has
\* a stack label that resolves to no record and was dropped.
C2_Witness ==
    /\ ListedRestricted
    /\ Len(volumes) = 2
    /\ volumes[2].Labels = "s1"
    /\ EffectiveRecord(volumes[2]) = NilRC
    /\ Kept(1)
    /\ ~Kept(2)

(***************************************************************************)
(* C3. An item whose record is Public is in the list output of every       *)
(* restricted caller, whatever its user id and teams, and its inspection   *)
(* yields the decorated object, not a denial.                              *)
(***************************************************************************)
C3_PublicVisibleToAll ==
    /\ ListedRestricted =>
           \A i \in DOMAIN volumes :
               LET r == EffectiveRecord(volumes[i])
               IN  (r # NilRC /\ r.Public) => Kept(i)
    /\ InspectedRestricted =>
           LET r == EffectiveRecord(volumes[1])
           IN  (r # NilRC /\ r.Public) =>
                   InspectSucceeded(decorateObject(volumes[1], r))

\* A restricted caller that is in no access list of a Public stack record
\* inspected a volume that inherits it, and got the decorated object.
C3_Witness ==
    /\ InspectedRestricted
    /\ DirectRecord(volumes[1]) = NilRC
    /\ LET r == StackRecord(volumes[1])
       IN  /\ r # NilRC
           /\ r.Public
           /\ context.userID \notin r.UserAccesses
           /\ r.TeamAccesses \cap context.userTeamIDs = {}
           /\ response.body[1].Portainer = r
    /\ ~response.denied

(***************************************************************************)
(* C4 as stated. A caller in one of the teams of the item's record sees    *)
(* the item (kept in list, inspect succeeds); a caller in no matching team *)
(* that is not an owner user of the record does not (dropped, denied).     *)
(* Violated: a Public record and a privileged caller show the item to a    *)
(* caller that is in no access list.                                       *)
(***************************************************************************)
InTeam(r) == r.TeamAccesses \cap context.userTeamIDs # {}
InNoAccessList(r) == ~InTeam(r) /\ context.userID \notin r.UserAccesses

CarriesDecoration(o) == o.Portainer # NilRC

GrantsOf(rc) ==
    IF rc = NilRC THEN NilRC
    ELSE [Public |-> rc.Public, UserAccesses |-> rc.UserAccesses,
          TeamAccesses |-> rc.TeamAccesses]

\* The volume inherits: no direct record, a Stack record through its label.
Inherits(v) ==
    v.Name # Null /\ DirectRecord(v) = NilRC /\ StackRecord(v) # NilRC

\* The snapshot in which volume v has the record r attached directly.
WithDirect(v, r) ==
    resourceControls \cup
        {ResourceControl(v.Name, VolumeResourceControl, r.Public, r.UserAccesses,
                         r.TeamAccesses)}

\* The outcome of a response for the volume named n: whether it is there, and
\* the access content of its decoration.
OutcomeIn(resp, n) ==
    LET js == {j \in DOMAIN resp.body :
                   "Name" \in DOMAIN resp.body[j] /\ resp.body[j].Name = n}
    IN  IF js = {} THEN <<FALSE, resp.denied, NilRC>>
        ELSE <<TRUE, resp.denied, GrantsOf(resp.body[CHOOSE j \in js : TRUE].Portainer)>>

\* volumes with the stack label of the i-th removed.
Unlabelled(i) == [volumes EXCEPT ![i].Labels = Null]

C6_InheritanceTransparent ==
    /\ (op = "list" /\ AllNamed) =>
           \A i \in DOMAIN volumes :
               Inherits(volumes[i]) =>
                   LET rcs2 == WithDirect(volumes[i], StackRecord(volumes[i]))
                       same == volumeListOperation(volumes, volumesNull, context, rcs2)
                       bare == volumeListOperation(Unlabelled(i), volumesNull, context, rcs2)
                   IN  /\ same[1] = err /\ bare[1] = err
                       /\ OutcomeIn(same[2], volumes[i].Name)
                              = OutcomeIn(response, volumes[i].Name)
                       /\ OutcomeIn(bare[2], volumes[i].Name)
                              = OutcomeIn(response, volumes[i].Name)
    /\ Inspected =>
           (Inherits(volumes[1]) =>
               LET v == volumes[1]
                   rcs2 == WithDirect(v, StackRecord(v))
                   same == volumeInspectOperation(v, context, rcs2)
                   bare == volumeInspectOperation([v EXCEPT !.Labels = Null], context, rcs2)
               IN  /\ same[1] = err /\ bare[1] = err
                   /\ OutcomeIn(same[2], v.Name) = OutcomeIn(response, v.Name)
                   /\ OutcomeIn(bare[2], v.Name) = OutcomeIn(response, v.Name))

\* A restricted caller inspected a volume that inherits a stack record naming
\* the caller as a user, and got the object decorated with that record.
C6_Witness ==
    /\ InspectedRestricted
    /\ Inherits(volumes[1])
    /\ LET r == StackRecord(volumes[1])
       IN  /\ ~r.Public
           /\ context.userID \in r.UserAccesses
           /\ InspectSucceeded(decorateObject(volumes[1], r))

(***************************************************************************)
(* C7. A list body with an item that lacks the identifier, at any position *)
(* and for any caller, fails with MissingIdentifier and the response is    *)
(* not rewritten; an inspect body that lacks it fails the same way, and so *)
(* yields neither a denial nor a success response.                         *)
(***************************************************************************)
C7_MissingIdentifierFails ==
    /\ (op = "list" /\ ~AllNamed) =>
           /\ err = errDockerVolumeIdentifierNotFound
           /\ response = UpstreamResponse(volumes)
    /\ (op = "inspect" /\ volumes[1].Name = Null) =>
           /\ err = errDockerVolumeIdentifierNotFound
           /\ response = UpstreamResponse(<<volumes[1]>>)
    /\ (op # "none" /\ err # NoError) => (~response.rewritten /\ ~response.denied)

\* A restricted caller listed two volumes: the first is one it can access,
\* the second lacks its Name; the operation failed.
C7_Witness ==
    /\ op = "list"
    /\ ~Privileged
    /\ Len(volumes) = 2
    /\ CanAccess(EffectiveRecord(volumes[1]))
    /\ volumes[2].Name = Null
    /\ err = errDockerVolumeIdentifierNotFound

(***************************************************************************)
(* C8. Inspect: a restricted caller whose effective record is nil or does  *)
(* not grant it gets the fixed access-denied response, which holds no      *)
(* field of the object; in every other case with an identifier the result  *)
(* is a success response holding the object, decorated when a record       *)
(* exists, unchanged when none exists.                                     *)
(***************************************************************************)
C8_InspectDecision ==
    Inspected =>
        LET v == volumes[1]
            r == EffectiveRecord(v)
        IN  IF ~Privileged /\ ~CanAccess(r)
            THEN /\ InspectDenied
                 /\ \A j \in DOMAIN response.body :
                        DOMAIN response.body[j] \cap DOMAIN v = {}
            ELSE IF r = NilRC
                 THEN InspectSucceeded(v)
                 ELSE InspectSucceeded(decorateObject(v, r))

\* A restricted caller inspected a volume whose direct record grants it
\* nothing, while the stack its label names is Public: denied.
C8_Witness ==
    /\ InspectedRestricted
    /\ LET d == DirectRecord(volumes[1])
           s == StackRecord(volumes[1])
       IN  /\ d # NilRC /\ ~CanAccess(d)
           /\ s # NilRC /\ s.Public
    /\ response.denied

(***************************************************************************)
(* C9. The decoration of a kept list item is its effective record: for an  *)
(* item with both a direct record and a label-resolved Stack record the    *)
(* list (privileged or restricted caller) attaches the direct record, as   *)
(* inspect does.  Stated for the callers that the direct record lets see   *)
(* the item, so that the fall-through of C1 is not what decides it.  The   *)
(* privileged list decorates from the label after the direct record, so    *)
(* this is violated.                                                       *)
(***************************************************************************)
C9_ListDecoratesWithDirect ==
    (op = "list" /\ AllNamed) =>
        \A i \in DOMAIN volumes :
            (/\ DirectRecord(volumes[i]) # NilRC
             /\ StackRecord(volumes[i]) # NilRC
             /\ volumes[i].Labels # ""
             /\ (Privileged \/ CanAccess(DirectRecord(volumes[i]))))
                => /\ Kept(i)
                   /\ Output(i).Portainer = DirectRecord(volumes[i])
                   /\ <<Output(i)>> =
                          volumeInspectOperation(volumes[i], context, resourceControls)[2].body

(***************************************************************************)
(* C10. An item with no direct record whose stack label is absent or the   *)
(* empty string has no record, and no parent lookup is made: it is denied  *)
(* for a restricted caller and undecorated for a privileged one, even when *)
(* the snapshot holds a Stack record whose ResourceID is the empty string. *)
(* Stated for the inspect operation, whose label test is in volumes.go     *)
(* (the list operation tests the label in helpers of the proxy package).   *)
(* findInheritedVolumeResourceControl looks the empty label up, so this is *)
(* violated.                                                               *)
(***************************************************************************)
NoLabelNoDirect(v) ==
    v.Name # Null /\ DirectRecord(v) = NilRC /\ v.Labels \in {Null, ""}

C10_EmptyLabelNoRecord ==
    Inspected =>
        (NoLabelNoDirect(volumes[1]) =>
            IF Privileged
            THEN InspectSucceeded(volumes[1])
            ELSE InspectDenied)

====
